---- MODULE Spec2Model ----
(***************************************************************************)
(* Model of pmpts (src/src/pmpts/cli.py): the undo-capable file-mutation   *)
(* layer add_file / remove_prompt / rename_prompt / perform_undo, the      *)
(* trash directory Root/.trash and the single-slot action log              *)
(* cfg["last_action"].                                                     *)
(*                                                                         *)
(* A file name is a sequence of string tokens ("a.prompt.md" is            *)
(* <<"a", ".prompt.md">>), a path is a directory tag plus a file name, and *)
(* the filesystem is a function from the existing paths to file contents.  *)
(* Every shutil.move may raise (an input io[i] = FALSE), and raises when   *)
(* its source does not exist; a move onto an existing file replaces it,    *)
(* as os.rename does.  The config dict is the persisted one: a write of    *)
(* the config file that fails (which save_config only prints) is not       *)
(* among the failures modelled.  Between two calls a file the log entry    *)
(* names may be deleted outside the program, and undo runs in a working    *)
(* directory that is a directory of its own or root.                       *)
(***************************************************************************)
EXTENDS Integers, Sequences, FiniteSets, TLC

VARIABLES fs,          \* the files: existing path -> content
          trashDir,    \* Root/.trash exists
          cfg,         \* the config dict: what load_config reads and save_config writes
          now,         \* int(time.time())
          last,        \* record of the most recent call and its outcome
          prev,        \* record of the call before it
          lastMut,     \* log record written by the most recent successful mutation
          nops         \* number of calls made

vars == <<fs, trashDir, cfg, now, last, prev, lastMut, nops>>

\* ---------------------------------------------------------------- bounds
MaxOps == 3
MaxTime == 2

\* ---------------------------------------------------------------- names and paths
SUFFIX == ".prompt.md"

EndsWithSuffix(name) == Len(name) > 0 /\ name[Len(name)] = SUFFIX

\* the suffix appended whatever the name ends with
Normalize_always(name) == Append(name, SUFFIX)

\* name if name.endswith(SUFFIX) else name + SUFFIX
Normalize(name) == IF EndsWithSuffix(name) THEN name ELSE Append(name, SUFFIX)

Path(d, n) == [dir |-> d, name |-> n]
NoPath == Path("none", <<>>)

\* root / base
RootPath(name) == Path("root", name)

\* a trash name without the timestamp
TrashName_fixed(t, name) == <<"0", "_">> \o name

\* f"{int(time.time())}_{name}"
TrashName(t, name) == <<ToString(t), "_">> \o name

\* f"{int(time.time())}_{name}.added"
AddedTrashName(t, name) == Append(TrashName(t, name), ".added")

\* td / tname, td = root / ".trash"
TrashPath(tname) == Path("trash", tname)

\* Path.cwd() / name
CwdPath(cwd, name) == Path(cwd, name)

\* ---------------------------------------------------------------- the filesystem
Exists(f, p) == p \in DOMAIN f

\* a move that never raises on an existing source
CanMove_always(f, s, io) == Exists(f, s)

\* shutil.move(s, d) completes: the source exists and the primitive does not raise
CanMove(f, s, io) == Exists(f, s) /\ io

\* a move that deletes the source without writing the destination
Move_unlink(f, s, d) == [q \in DOMAIN f \ {s} |-> f[q]]

\* the filesystem after a completed shutil.move(s, d)
Move(f, s, d) ==
    IF s = d THEN f
    ELSE [q \in (DOMAIN f \ {s}) \cup {d} |-> IF q = d THEN f[s] ELSE f[q]]

\* the existing files a completed shutil.move(s, d) replaces
Clobbered(f, s, d) == IF Exists(f, d) /\ s # d THEN {d} ELSE {}

\* ---------------------------------------------------------------- the config
HasLast(c) == "last_action" \in DOMAIN c

\* a log that keeps the entry it already holds
SetLast_keep(c, la) == IF HasLast(c) THEN c ELSE [root |-> c.root, last_action |-> la]

\* cfg["last_action"] = la
SetLast(c, la) == [root |-> c.root, last_action |-> la]

\* an undo that leaves the entry in the log
PopLast_keep(c) == c

\* cfg.pop("last_action", None)
PopLast(c) == [root |-> c.root]

\* save_config(cfg): the config file holds the dict it is given
save_config(c) == c

\* every answer counts as yes
Yes_any == {"y", "yes", "n"}

\* ans.lower() in ("y", "yes")
Yes == {"y", "yes"}

\* the outcome of one call: the result returned (ok, msg), the files, trash directory
\* and config it leaves, whether it called save_config, the paths it worked on (src,
\* dest, the trash path tr it filled), the files after its first move (mid), the
\* existing files its moves replaced (clob) and which of its moves it tried (n): in
\* add and rename 1 is the move to trash, 2 the main move, 3 the restore; in undo
\* 1 is the first move and 2 the second
Res(ok, msg, f, td, c, saved, src, dest, tr, mid, clob, n) ==
    [ok |-> ok, msg |-> msg, fs |-> f, td |-> td, cfg |-> c, saved |-> saved,
     src |-> src, dest |-> dest, tr |-> tr, mid |-> mid, clob |-> clob, n |-> n]

\* ---------------------------------------------------------------- rollback
\* if overwritten_trash and overwritten_trash.exists(): the restore move is tried
RestoreTried(f, ot) == IF ot # NoPath /\ Exists(f, ot) THEN {3} ELSE {}

\* a rollback that deletes the trashed file instead of moving it back
Restore_drop(f, ot, dest, io) == [q \in DOMAIN f \ {ot} |-> f[q]]

\* no rollback
Restore_none(f, ot, dest, io) == f

\* the files after the attempt to move the trashed file back; a failure is swallowed
Restore(f, ot, dest, io) ==
    IF RestoreTried(f, ot) # {} /\ CanMove(f, ot, io) THEN Move(f, ot, dest) ELSE f

RestoreClobbered(f, ot, dest, io) ==
    IF RestoreTried(f, ot) # {} /\ CanMove(f, ot, io) THEN Clobbered(f, ot, dest) ELSE {}

\* ---------------------------------------------------------------- add
\* an add entry with src and dest exchanged
AddLog_swapped(src, dest, ot) ==
    IF ot = NoPath
    THEN [action |-> "add", src |-> dest, dest |-> src]
    ELSE [action |-> "add", src |-> dest, dest |-> src, overwritten_trash |-> ot]

\* cfg_last: {"action": "add", "src", "dest"} and, when set, "overwritten_trash"
AddLog(src, dest, ot) ==
    IF ot = NoPath
    THEN [action |-> "add", src |-> src, dest |-> dest]
    ELSE [action |-> "add", src |-> src, dest |-> dest, overwritten_trash |-> ot]

add_file(f, td, c, t, src, force, ans, io) ==
    LET base == Normalize(src.name)
        dest == RootPath(base)
        ot   == TrashPath(TrashName(t, dest.name))
    IN
    IF ~Exists(f, src)
    THEN Res(FALSE, "File not found", f, td, c, FALSE, src, dest, NoPath, f, {}, {})
    ELSE IF Exists(f, dest) /\ ~force /\ ans \notin Yes
    THEN Res(FALSE, "aborted", f, td, c, FALSE, src, dest, NoPath, f, {}, {})
    ELSE IF Exists(f, dest) /\ ~CanMove(f, dest, io[1])
    THEN Res(FALSE, "Failed to move existing prompt to trash", f, TRUE, c, FALSE,
             src, dest, NoPath, f, {}, {1})
    ELSE
      LET over == Exists(f, dest)
          owt  == IF over THEN ot ELSE NoPath
          f1   == IF over THEN Move(f, dest, ot) ELSE f
          td1  == IF over THEN TRUE ELSE td
          c1   == IF over THEN Clobbered(f, dest, ot) ELSE {}
          tr1  == IF over THEN {1} ELSE {}
      IN
      IF CanMove(f1, src, io[2])
      THEN Res(TRUE, "added", Move(f1, src, dest), td1, SetLast(c, AddLog(src, dest, owt)),
               TRUE, src, dest, owt, f1, c1 \cup Clobbered(f1, src, dest), tr1 \cup {2})
      ELSE Res(FALSE, "Failed to move", Restore(f1, owt, dest, io[3]), td1, c, FALSE,
               src, dest, owt, f1, c1 \cup RestoreClobbered(f1, owt, dest, io[3]),
               tr1 \cup {2} \cup RestoreTried(f1, owt))

\* input() is called: the source exists, the destination exists and force is unset
add_asks(f, src, force) ==
    Exists(f, src) /\ Exists(f, RootPath(Normalize(src.name))) /\ ~force

\* ---------------------------------------------------------------- remove
\* a remove entry with dest and trashed exchanged
RemoveLog_swapped(p, trashed) == [action |-> "remove", dest |-> trashed, trashed |-> p]

\* {"action": "remove", "dest": str(p), "trashed": str(trashed)}
RemoveLog(p, trashed) == [action |-> "remove", dest |-> p, trashed |-> trashed]

\* a remove that does not look whether the prompt exists
remove_prompt_unchecked(f, td, c, t, name, yes, ans, io) ==
    LET candidate == Normalize(name)
        p         == RootPath(candidate)
        trashed   == TrashPath(TrashName(t, p.name))
    IN
    IF ~yes /\ ans \notin Yes
    THEN Res(FALSE, "aborted", f, td, c, FALSE, p, p, NoPath, f, {}, {})
    ELSE IF ~CanMove(f, p, io[1])
    THEN Res(FALSE, "Failed to remove (move to trash)", f, TRUE, c, FALSE,
             p, p, NoPath, f, {}, {1})
    ELSE Res(TRUE, "removed", Move(f, p, trashed), TRUE, SetLast(c, RemoveLog(p, trashed)),
             TRUE, p, p, trashed, Move(f, p, trashed), Clobbered(f, p, trashed), {1})

remove_prompt(f, td, c, t, name, yes, ans, io) ==
    LET candidate == Normalize(name)
        p         == RootPath(candidate)
        trashed   == TrashPath(TrashName(t, p.name))
    IN
    IF ~Exists(f, p)
    THEN Res(FALSE, "Not found", f, td, c, FALSE, p, p, NoPath, f, {}, {})
    ELSE IF ~yes /\ ans \notin Yes
    THEN Res(FALSE, "aborted", f, td, c, FALSE, p, p, NoPath, f, {}, {})
    ELSE IF ~CanMove(f, p, io[1])
    THEN Res(FALSE, "Failed to remove (move to trash)", f, TRUE, c, FALSE,
             p, p, NoPath, f, {}, {1})
    ELSE Res(TRUE, "removed", Move(f, p, trashed), TRUE, SetLast(c, RemoveLog(p, trashed)),
             TRUE, p, p, trashed, Move(f, p, trashed), Clobbered(f, p, trashed), {1})

\* input() is called: the prompt exists and yes is unset
remove_asks(f, name, yes) == Exists(f, RootPath(Normalize(name))) /\ ~yes

\* ---------------------------------------------------------------- rename
\* a rename entry that never records the overwritten file
RenameLog_plain(p_old, p_new, ot) == [action |-> "rename", old |-> p_old, new |-> p_new]

\* {"action": "rename", "old", "new"} and, when set, "overwritten_trash"
RenameLog(p_old, p_new, ot) ==
    IF ot = NoPath
    THEN [action |-> "rename", old |-> p_old, new |-> p_new]
    ELSE [action |-> "rename", old |-> p_old, new |-> p_new, overwritten_trash |-> ot]

rename_prompt(f, td, c, t, old, new, force, ans, io) ==
    LET p_old == RootPath(Normalize(old))
        p_new == RootPath(Normalize(new))
        ot    == TrashPath(TrashName(t, p_new.name))
    IN
    IF ~Exists(f, p_old)
    THEN Res(FALSE, "Not found", f, td, c, FALSE, p_old, p_new, NoPath, f, {}, {})
    ELSE IF Exists(f, p_new) /\ ~force /\ ans \notin Yes
    THEN Res(FALSE, "aborted", f, td, c, FALSE, p_old, p_new, NoPath, f, {}, {})
    ELSE IF Exists(f, p_new) /\ ~CanMove(f, p_new, io[1])
    THEN Res(FALSE, "Failed to move existing target to trash", f, TRUE, c, FALSE,
             p_old, p_new, NoPath, f, {}, {1})
    ELSE
      LET over == Exists(f, p_new)
          owt  == IF over THEN ot ELSE NoPath
          f1   == IF over THEN Move(f, p_new, ot) ELSE f
          td1  == IF over THEN TRUE ELSE td
          c1   == IF over THEN Clobbered(f, p_new, ot) ELSE {}
          tr1  == IF over THEN {1} ELSE {}
      IN
      IF CanMove(f1, p_old, io[2])
      THEN Res(TRUE, "renamed", Move(f1, p_old, p_new), td1,
               SetLast(c, RenameLog(p_old, p_new, owt)),
               TRUE, p_old, p_new, owt, f1, c1 \cup Clobbered(f1, p_old, p_new), tr1 \cup {2})
      ELSE Res(FALSE, "Failed to rename", Restore(f1, owt, p_new, io[3]), td1, c, FALSE,
               p_old, p_new, owt, f1, c1 \cup RestoreClobbered(f1, owt, p_new, io[3]),
               tr1 \cup {2} \cup RestoreTried(f1, owt))

\* input() is called: old exists, new exists and force is unset
rename_asks(f, old, new, force) ==
    /\ Exists(f, RootPath(Normalize(old)))
    /\ Exists(f, RootPath(Normalize(new)))
    /\ ~force

\* ---------------------------------------------------------------- undo
Overwritten(la) == IF "overwritten_trash" \in DOMAIN la THEN la.overwritten_trash ELSE NoPath

\* an undo of a remove entry that drops the entry when the trashed file is gone
undo_remove_forgets(f, td, c, t, io) ==
    LET la      == c.last_action
        trashed == la.trashed
        dest    == la.dest
    IN
    IF ~Exists(f, trashed)
    THEN Res(FALSE, "trashed file not found", f, td, PopLast(c), TRUE, trashed, dest, NoPath,
             f, {}, {})
    ELSE IF ~CanMove(f, trashed, io[1])
    THEN Res(FALSE, "failed to restore", f, td, c, FALSE, trashed, dest, NoPath, f, {}, {1})
    ELSE Res(TRUE, "restored", Move(f, trashed, dest), td, PopLast(c), TRUE,
             trashed, dest, NoPath, f, Clobbered(f, trashed, dest), {1})

undo_remove(f, td, c, t, io) ==
    LET la      == c.last_action
        trashed == la.trashed
        dest    == la.dest
    IN
    IF ~Exists(f, trashed)
    THEN Res(FALSE, "trashed file not found", f, td, c, FALSE, trashed, dest, NoPath, f, {}, {})
    ELSE IF ~CanMove(f, trashed, io[1])
    THEN Res(FALSE, "failed to restore", f, td, c, FALSE, trashed, dest, NoPath, f, {}, {1})
    ELSE Res(TRUE, "restored", Move(f, trashed, dest), td, PopLast(c), TRUE,
             trashed, dest, NoPath, f, Clobbered(f, trashed, dest), {1})

\* an undo of an add entry that drops the entry when its moves raise
undo_add_forgets(f, td, c, t, io, cwd) ==
    LET la          == c.last_action
        dest        == la.dest
        src         == la.src
        overwritten == Overwritten(la)
        added       == TrashPath(AddedTrashName(t, dest.name))
        fallback    == CwdPath(cwd, dest.name)
    IN
    IF ~Exists(f, dest)
    THEN Res(FALSE, "added file not found", f, td, c, FALSE, src, dest, NoPath, f, {}, {})
    ELSE IF overwritten # NoPath /\ Exists(f, overwritten)
    THEN
      IF ~CanMove(f, overwritten, io[1])
      THEN Res(FALSE, "failed to undo add", f, td, c, FALSE, src, dest, NoPath, f, {}, {1})
      ELSE
        LET f1 == Move(f, overwritten, dest)
            c1 == Clobbered(f, overwritten, dest)
        IN
        IF ~CanMove(f1, dest, io[2])
        THEN Res(FALSE, "failed to undo add", f1, TRUE, c, FALSE, src, dest, NoPath, f1, c1, {1, 2})
        ELSE Res(TRUE, "restored overwritten prompt and moved new added file to trash",
                 Move(f1, dest, added), TRUE, PopLast(c), TRUE, src, dest, added, f1,
                 c1 \cup Clobbered(f1, dest, added), {1, 2})
    ELSE IF CanMove(f, dest, io[1])
    THEN Res(TRUE, "moved back to src", Move(f, dest, src), td, PopLast(c), TRUE,
             src, dest, NoPath, f, Clobbered(f, dest, src), {1})
    ELSE IF CanMove(f, dest, io[2])
    THEN Res(TRUE, "moved to fallback", Move(f, dest, fallback), td, PopLast(c), TRUE,
             src, dest, NoPath, f, Clobbered(f, dest, fallback), {1, 2})
    ELSE Res(FALSE, "failed to undo add", f, td, PopLast(c), TRUE, src, dest, NoPath, f, {},
             {1, 2})

undo_add(f, td, c, t, io, cwd) ==
    LET la          == c.last_action
        dest        == la.dest
        src         == la.src
        overwritten == Overwritten(la)
        added       == TrashPath(AddedTrashName(t, dest.name))
        fallback    == CwdPath(cwd, dest.name)
    IN
    IF ~Exists(f, dest)
    THEN Res(FALSE, "added file not found", f, td, c, FALSE, src, dest, NoPath, f, {}, {})
    ELSE IF overwritten # NoPath /\ Exists(f, overwritten)
    THEN \* restore the overwritten file onto dest, then move dest to trash
      IF ~CanMove(f, overwritten, io[1])
      THEN Res(FALSE, "failed to undo add", f, td, c, FALSE, src, dest, NoPath, f, {}, {1})
      ELSE
        LET f1 == Move(f, overwritten, dest)
            c1 == Clobbered(f, overwritten, dest)
        IN
        IF ~CanMove(f1, dest, io[2])
        THEN Res(FALSE, "failed to undo add", f1, TRUE, c, FALSE, src, dest, NoPath, f1, c1, {1, 2})
        ELSE Res(TRUE, "restored overwritten prompt and moved new added file to trash",
                 Move(f1, dest, added), TRUE, PopLast(c), TRUE, src, dest, added, f1,
                 c1 \cup Clobbered(f1, dest, added), {1, 2})
    ELSE IF CanMove(f, dest, io[1])
    THEN Res(TRUE, "moved back to src", Move(f, dest, src), td, PopLast(c), TRUE,
             src, dest, NoPath, f, Clobbered(f, dest, src), {1})
    ELSE IF CanMove(f, dest, io[2])
    THEN Res(TRUE, "moved to fallback", Move(f, dest, fallback), td, PopLast(c), TRUE,
             src, dest, NoPath, f, Clobbered(f, dest, fallback), {1, 2})
    ELSE Res(FALSE, "failed to undo add", f, td, c, FALSE, src, dest, NoPath, f, {}, {1, 2})

\* an undo that reverses a rename entry
perform_undo_renames(f, td, c, t, io, cwd) ==
    IF ~HasLast(c)
    THEN Res(FALSE, "no action to undo", f, td, c, FALSE, NoPath, NoPath, NoPath, f, {}, {})
    ELSE IF c.last_action.action = "remove" THEN undo_remove(f, td, c, t, io)
    ELSE IF c.last_action.action = "add" THEN undo_add(f, td, c, t, io, cwd)
    ELSE IF CanMove(f, c.last_action.new, io[1])
    THEN Res(TRUE, "renamed back", Move(f, c.last_action.new, c.last_action.old), td,
             PopLast(c), TRUE, c.last_action.new, c.last_action.old, NoPath, f, {}, {1})
    ELSE Res(FALSE, "unknown last action", f, td, c, FALSE, NoPath, NoPath, NoPath, f, {}, {1})

\* perform_undo(cfg): dispatch on the action of the log entry
perform_undo(f, td, c, t, io, cwd) ==
    IF ~HasLast(c)
    THEN Res(FALSE, "no action to undo", f, td, c, FALSE, NoPath, NoPath, NoPath, f, {}, {})
    ELSE IF c.last_action.action = "remove" THEN undo_remove(f, td, c, t, io)
    ELSE IF c.last_action.action = "add" THEN undo_add(f, td, c, t, io, cwd)
    ELSE Res(FALSE, "unknown last action", f, td, c, FALSE, NoPath, NoPath, NoPath, f, {}, {})

\* Path.cwd() is read: the entry is an add entry whose dest exists, no overwritten
\* file is restored and the move back to src raises
undo_reads_cwd(f, c, io) ==
    /\ HasLast(c) /\ c.last_action.action = "add"
    /\ Exists(f, c.last_action.dest)
    /\ ~(Overwritten(c.last_action) # NoPath /\ Exists(f, Overwritten(c.last_action)))
    /\ ~io[1]

\* ---------------------------------------------------------------- inputs
\* names given to remove and rename, with and without the suffix
UserNames == {<<"a">>, <<"a", SUFFIX>>, <<"b">>}
NewNames  == {<<"a", SUFFIX>>, <<"b">>}
\* files given to add: outside root (one of them missing) and a prompt of root itself
SrcPaths  == {Path("ext", n) : n \in UserNames} \cup {RootPath(<<"b", SUFFIX>>)}
Answers   == {"y", "n"}
\* which moves of a call raise, io[i] = FALSE for the i-th: a call with one move,
\* with a restore after a failed second move, and with two moves of which the
\* second is tried whatever the first did
IO1 == {<<TRUE, TRUE, TRUE>>, <<FALSE, TRUE, TRUE>>}
IO3 == IO1 \cup {<<TRUE, FALSE, TRUE>>, <<TRUE, FALSE, FALSE>>}
IO2 == IO1 \cup {<<TRUE, FALSE, TRUE>>, <<FALSE, FALSE, TRUE>>}
NoneRaises == <<TRUE, TRUE, TRUE>>
\* the working directory of an undo: a directory of its own, or root
CwdDirs == {"cwd", "root"}

\* ---------------------------------------------------------------- state machine
NoLog == [action |-> "none"]

\* what is kept of the call before the most recent one
Brief(l) ==
    [op |-> l.op, ok |-> l.ok, msg |-> l.msg, src |-> l.src, dest |-> l.dest, tr |-> l.tr,
     content |-> IF Exists(l.fs0, l.src) THEN l.fs0[l.src] ELSE 0, io |-> l.io]

Init ==
    /\ fs = (Path("ext", <<"a">>) :> 1) @@ (Path("ext", <<"a", SUFFIX>>) :> 2)
            @@ (RootPath(<<"b", SUFFIX>>) :> 3)
    /\ trashDir = FALSE
    /\ cfg = [root |-> "root"]
    /\ now = 1
    /\ last = [op |-> "none", ok |-> FALSE, msg |-> "", src |-> NoPath, dest |-> NoPath,
               tr |-> NoPath, mid |-> fs, clob |-> {}, fs0 |-> fs, cfg0 |-> cfg, t |-> 0,
               io |-> NoneRaises, declined |-> FALSE, cwd |-> "cwd"]
    /\ prev = Brief(last)
    /\ lastMut = NoLog
    /\ nops = 0

\* one call: its effects on the files and the config, and the record kept of it:
\* the outcome r, which of the moves it tried raised (io), whether input() was
\* called and answered with something other than yes (declined), and the working
\* directory.  A move that is not tried does not raise, an answer that is not read
\* is "n" and a working directory that is not read is "cwd".
Call(op, r, io, asks, ans, cwd) ==
    /\ \A i \in 1..3 : i \notin r.n => io[i]
    /\ ~asks => ans = "n"
    /\ fs' = r.fs
    /\ trashDir' = r.td
    /\ cfg' = IF r.saved THEN save_config(r.cfg) ELSE r.cfg
    /\ last' = [op |-> op, ok |-> r.ok, msg |-> r.msg, src |-> r.src, dest |-> r.dest,
                tr |-> r.tr, mid |-> r.mid, clob |-> r.clob, fs0 |-> fs, cfg0 |-> cfg,
                t |-> IF r.tr = NoPath THEN 0 ELSE now,
                io |-> io, declined |-> (asks /\ ans \notin {"y", "yes"}), cwd |-> cwd]
    /\ prev' = Brief(last)
    /\ lastMut' = IF r.ok /\ op # "undo" THEN r.cfg.last_action ELSE lastMut
    /\ nops' = nops + 1
    /\ UNCHANGED now

AddFile ==
    /\ nops < MaxOps
    /\ \E src \in SrcPaths, force \in BOOLEAN, ans \in Answers, io \in IO3 :
          /\ force => ans = "n"      \* input() is not called
          /\ ~Exists(fs, src) => ~force /\ io = NoneRaises    \* nothing else is read
          /\ \E r \in {add_file(fs, trashDir, cfg, now, src, force, ans, io)} :
                Call("add", r, io, add_asks(fs, src, force), ans, "cwd")

RemovePrompt ==
    /\ nops < MaxOps
    /\ \E name \in UserNames, yes \in BOOLEAN, ans \in Answers, io \in IO1 :
          /\ yes => ans = "n"        \* input() is not called
          /\ ~Exists(fs, RootPath(Normalize(name))) => ~yes /\ io = NoneRaises
          /\ \E r \in {remove_prompt(fs, trashDir, cfg, now, name, yes, ans, io)} :
                Call("remove", r, io, remove_asks(fs, name, yes), ans, "cwd")

RenamePrompt ==
    /\ nops < MaxOps
    /\ \E old \in UserNames, new \in NewNames, force \in BOOLEAN, ans \in Answers,
          io \in IO3 :
          /\ force => ans = "n"      \* input() is not called
          /\ ~Exists(fs, RootPath(Normalize(old))) => ~force /\ io = NoneRaises
          /\ \E r \in {rename_prompt(fs, trashDir, cfg, now, old, new, force, ans, io)} :
                Call("rename", r, io, rename_asks(fs, old, new, force), ans, "cwd")

PerformUndo ==
    /\ nops < MaxOps
    /\ \E io \in IO2, cwd \in CwdDirs :
          /\ ~undo_reads_cwd(fs, cfg, io) => cwd = "cwd"
          /\ \E r \in {perform_undo(fs, trashDir, cfg, now, io, cwd)} :
                Call("undo", r, io, FALSE, "n", cwd)

\* the files the log entry names and undo looks for: the trashed file of a remove
\* entry, the destination and the overwritten_trash file of an add entry
UndoReads(c) ==
    IF ~HasLast(c) THEN {}
    ELSE IF c.last_action.action = "remove" THEN {c.last_action.trashed}
    ELSE IF c.last_action.action = "add"
    THEN {c.last_action.dest, Overwritten(c.last_action)} \ {NoPath}
    ELSE {}

\* between two calls a file the log entry names is deleted outside the program
External ==
    \E p \in UndoReads(cfg) :
        /\ Exists(fs, p)
        /\ fs' = [q \in DOMAIN fs \ {p} |-> fs[q]]
        /\ last' = [op |-> "external", ok |-> FALSE, msg |-> "", src |-> NoPath,
                    dest |-> NoPath, tr |-> NoPath, mid |-> fs', clob |-> {}, fs0 |-> fs,
                    cfg0 |-> cfg, t |-> 0, io |-> NoneRaises, declined |-> FALSE, cwd |-> "cwd"]
        /\ prev' = Brief(last)
        /\ UNCHANGED <<trashDir, cfg, now, lastMut, nops>>

\* the clock advances between calls.  The time is read for trash names only, so a
\* later second changes an outcome only when a trash entry carries the present one:
\* the other advances are left out.
Tick ==
    /\ now < MaxTime
    /\ \E p \in DOMAIN fs : p.dir = "trash" /\ p.name[1] = ToString(now)
    /\ now' = now + 1
    /\ UNCHANGED <<fs, trashDir, cfg, last, prev, lastMut, nops>>

Next == AddFile \/ RemovePrompt \/ RenamePrompt \/ PerformUndo \/ External \/ Tick

Spec == Init /\ [][Next]_vars

\* ---------------------------------------------------------------- properties
\* the content at a path, 0 when no file is there
Content(f, p) == IF Exists(f, p) THEN f[p] ELSE 0

\* the log entry the most recent call found
LogBefore == last.cfg0.last_action

Mutations == {"add", "remove", "rename"}

\* C1 -----------------------------------------------------------------------
\* The most recent call is an undo that returned success on an add entry whose
\* overwritten_trash is recorded and still exists.
C1_Case ==
    /\ last.op = "undo" /\ last.ok
    /\ HasLast(last.cfg0)
    /\ LogBefore.action = "add"
    /\ Overwritten(LogBefore) # NoPath
    /\ Exists(last.fs0, Overwritten(LogBefore))

\* C1: after undoing an add that overwrote an existing destination, dest holds the
\* overwritten original content and the added content is kept in Root/.trash under
\* the timestamped name suffixed ".added"; neither content is lost.
C1_UndoKeepsBothContents ==
    C1_Case =>
        /\ Content(fs, LogBefore.dest) = last.fs0[Overwritten(LogBefore)]
        /\ last.tr = TrashPath(AddedTrashName(last.t, LogBefore.dest.name))
        /\ Content(fs, last.tr) = last.fs0[LogBefore.dest]

\* C2 -----------------------------------------------------------------------
\* The most recent call is an undo that directly follows a successful add onto a
\* destination that did not exist.
C2_Case == last.op = "undo" /\ prev.op = "add" /\ prev.ok /\ prev.tr = NoPath

C2_Restored ==
    /\ Content(fs, prev.src) = prev.content
    /\ ~Exists(fs, prev.dest)
    /\ ~HasLast(cfg)

\* C2: for a source whose destination name was not in root, a successful add
\* directly followed by undo puts the file back at its source path with its content,
\* leaves root without the added entry and leaves the log empty.  That is the
\* outcome whenever the move back to src does not raise; when it raises the file is
\* moved to the working directory under the destination name (its own path when
\* the working directory is root), and when that raises too the undo fails and
\* changes nothing.
C2_AddUndoRoundTrip ==
    C2_Case =>
        /\ last.io[1] => last.ok /\ C2_Restored
        /\ (~last.io[1] /\ last.io[2]) =>
              /\ last.ok
              /\ Content(fs, CwdPath(last.cwd, prev.dest.name)) = prev.content
              /\ last.cwd # "root" => ~Exists(fs, prev.dest)
              /\ ~Exists(fs, prev.src)
              /\ ~HasLast(cfg)
        /\ (~last.io[1] /\ ~last.io[2]) =>
              ~last.ok /\ fs = last.fs0 /\ cfg = last.cfg0

C2_Witness == C2_Case /\ last.io[1] /\ last.ok /\ prev.content # 0 /\ C2_Restored

\* C3 -----------------------------------------------------------------------
\* The most recent call is an undo that directly follows a successful remove.
C3_Case == last.op = "undo" /\ prev.op = "remove" /\ prev.ok

C3_Restored ==
    /\ Content(fs, prev.dest) = prev.content
    /\ ~Exists(fs, prev.tr)
    /\ ~HasLast(cfg)

\* C3: a successful remove directly followed by undo restores the file with the
\* same content at its path, removes its trash entry and leaves the log empty.  That
\* is the outcome whenever the move out of trash does not raise; when it raises the
\* undo fails, the file stays in trash and the log keeps its entry.
C3_RemoveUndoRoundTrip ==
    C3_Case =>
        /\ last.io[1] => last.ok /\ C3_Restored
        /\ ~last.io[1] =>
              /\ ~last.ok
              /\ fs = last.fs0
              /\ Content(fs, prev.tr) = prev.content
              /\ cfg = last.cfg0 /\ HasLast(cfg)

C3_Witness == C3_Case /\ last.io[1] /\ last.ok /\ prev.content # 0 /\ C3_Restored

\* C4 -----------------------------------------------------------------------
NoRaise(io) == \A i \in 1..3 : io[i]

\* undo was called twice in a row, the first time with an entry in the log, and no
\* move of either call raised
C4_Case ==
    /\ last.op = "undo" /\ prev.op = "undo" /\ prev.msg # "no action to undo"
    /\ NoRaise(prev.io) /\ NoRaise(last.io)

\* C4 as stated: with an entry of any kind (add, remove or rename) in the log, the
\* first of two undo calls in a row succeeds and the second fails with "no action
\* to undo".
C4_UndoTwice ==
    C4_Case => prev.ok /\ ~last.ok /\ last.msg = "no action to undo"

\* C4 amended: when the first of two undo calls in a row succeeds, the second fails
\* with "no action to undo" and changes nothing; an undo on a rename entry does not
\* succeed: it fails with "unknown last action" and changes nothing.
C4_UndoTwiceAfterSuccess ==
    /\ (last.op = "undo" /\ prev.op = "undo" /\ prev.ok) =>
          /\ ~last.ok /\ last.msg = "no action to undo"
          /\ fs = last.fs0 /\ cfg = last.cfg0
    /\ (last.op = "undo" /\ HasLast(last.cfg0) /\ LogBefore.action = "rename") =>
          /\ ~last.ok /\ last.msg = "unknown last action"
          /\ fs = last.fs0 /\ cfg = last.cfg0

C4_Witness ==
    /\ last.op = "undo" /\ prev.op = "undo" /\ prev.ok
    /\ last.msg = "no action to undo"

\* C5 -----------------------------------------------------------------------
\* C5: no call replaces an existing file of Root by moving another file onto its
\* path.
C5_NoRootOverwrite == \A p \in last.clob : p.dir # "root"

\* C6 -----------------------------------------------------------------------
\* the trash entries that existed before the most recent call
TrashBefore == {p \in DOMAIN last.fs0 : p.dir = "trash"}

\* the trash name of the most recent call: its timestamp, "_", the file's name
StampedName == <<ToString(last.t), "_">> \o last.dest.name

\* C6 as stated: every trash move of add, remove and rename creates an entry under
\* a name no existing trash entry has, so no existing trash entry is overwritten or
\* deleted.
C6_TrashNamesUnique ==
    last.op \in Mutations =>
        /\ last.tr # NoPath => ~Exists(last.fs0, last.tr)
        /\ \A p \in TrashBefore : Content(fs, p) = last.fs0[p]

\* C6 amended: a trash move of add, remove or rename leaves every existing trash
\* entry as it was, except an entry of the same file name trashed within the same
\* second, whose name it reuses and whose content it replaces.
C6_TrashKeptUnlessSameSecond ==
    last.op \in Mutations =>
        \A p \in TrashBefore :
            Content(fs, p) # last.fs0[p] =>
                last.tr # NoPath /\ p = last.tr /\ p.name = StampedName

\* an entry of the same file name from an earlier second is kept next to the new one
C6_Witness ==
    /\ last.op \in Mutations /\ last.tr # NoPath /\ Exists(fs, last.tr)
    /\ \E p \in TrashBefore :
          /\ p # last.tr
          /\ SubSeq(p.name, 3, Len(p.name)) = last.dest.name
          /\ Content(fs, p) = last.fs0[p]

\* C7 -----------------------------------------------------------------------
\* the most recent call is an add, remove or rename that moved a file to trash
C7_Case == last.op \in Mutations /\ last.tr # NoPath

\* C7: after a successful trash move Root/.trash holds a file named
\* "{timestamp}_{original filename}" whose content is the content the trashed file
\* had before the call; when the call succeeds that file is still there at its end.
C7_TrashKeepsContent ==
    C7_Case =>
        /\ last.t \in 1..now
        /\ last.tr = Path("trash", StampedName)
        /\ Exists(last.fs0, last.dest)
        /\ Content(last.mid, last.tr) = last.fs0[last.dest]
        /\ last.ok => Content(fs, last.tr) = last.fs0[last.dest]

C7_Witness ==
    /\ C7_Case /\ last.op = "remove" /\ last.ok
    /\ Content(fs, last.tr) = last.fs0[last.dest]
    /\ ~Exists(fs, last.dest)

\* C8 -----------------------------------------------------------------------
\* the main move of an add or rename failed after the destination was trashed
C8_Case == last.op \in {"add", "rename"} /\ ~last.ok /\ last.tr # NoPath

\* C8: when the main move of an add or rename fails after the existing destination
\* was moved to trash, the call returns failure, the former destination content is
\* back at the destination when the restore move succeeds and still in trash when
\* it does not, and the source (old) file keeps its content where it was.
C8_RollbackKeepsContent ==
    C8_Case =>
        /\ last.msg \in {"Failed to move", "Failed to rename"}
        /\ last.io[3] =>
              /\ Content(fs, last.dest) = last.fs0[last.dest]
              /\ ~Exists(fs, last.tr)
        /\ ~last.io[3] =>
              /\ Content(fs, last.tr) = last.fs0[last.dest]
              /\ ~Exists(fs, last.dest)
        /\ last.src # last.dest => Content(fs, last.src) = Content(last.fs0, last.src)
        /\ Content(last.fs0, last.dest) # 0

C8_Witness ==
    /\ C8_Case /\ last.io[3] /\ last.src # last.dest
    /\ Content(fs, last.dest) = last.fs0[last.dest]
    /\ Exists(fs, last.src)

\* C9 -----------------------------------------------------------------------
\* the record a successful add, remove or rename is to leave in the log
OwnRecord ==
    IF last.op = "add"
    THEN IF last.tr = NoPath
         THEN [action |-> "add", src |-> last.src, dest |-> last.dest]
         ELSE [action |-> "add", src |-> last.src, dest |-> last.dest,
               overwritten_trash |-> last.tr]
    ELSE IF last.op = "remove"
    THEN [action |-> "remove", dest |-> last.dest, trashed |-> last.tr]
    ELSE IF last.tr = NoPath
         THEN [action |-> "rename", old |-> last.src, new |-> last.dest]
         ELSE [action |-> "rename", old |-> last.src, new |-> last.dest,
               overwritten_trash |-> last.tr]

\* C9: the log holds at most one entry; it is empty or the record of the most
\* recent successful add, remove or rename; a successful mutation replaces the entry
\* by its own record and a successful undo clears it.
C9_SingleSlotLog ==
    /\ DOMAIN cfg \subseteq {"root", "last_action"}
    /\ HasLast(cfg) => cfg.last_action = lastMut
    /\ (last.op \in Mutations /\ last.ok) => HasLast(cfg) /\ cfg.last_action = OwnRecord
    /\ (last.op = "undo" /\ last.ok) => ~HasLast(cfg)

\* a successful mutation replaced the entry of an earlier one
C9_Witness ==
    /\ last.op \in Mutations /\ last.ok
    /\ HasLast(last.cfg0)
    /\ last.cfg0.last_action # OwnRecord
    /\ cfg.last_action = OwnRecord

\* C10 ----------------------------------------------------------------------
\* the most recent call is a successful rename onto an existing destination
C10_Case == last.op = "rename" /\ last.ok /\ last.tr # NoPath

\* C10: a successful rename onto an existing destination ends with the former
\* content of the destination in trash under the timestamp-prefixed name, the old
\* file absent from root, the destination holding the old file's former content,
\* and the log entry {action: rename, old, new, overwritten_trash}.
C10_RenameOverwrite ==
    C10_Case =>
        /\ last.tr = Path("trash", StampedName)
        /\ Content(fs, last.tr) = last.fs0[last.dest]
        /\ ~Exists(fs, last.src)
        /\ Content(fs, last.dest) = last.fs0[last.src]
        /\ HasLast(cfg)
        /\ cfg.last_action = [action |-> "rename", old |-> last.src, new |-> last.dest,
                              overwritten_trash |-> last.tr]

\* rename "a" "b" with b.prompt.md present
C10_Witness ==
    /\ C10_Case
    /\ last.src = RootPath(<<"a", SUFFIX>>)
    /\ last.dest = RootPath(<<"b", SUFFIX>>)
    /\ Content(fs, last.dest) = last.fs0[last.src]

\* C11 ----------------------------------------------------------------------
\* the most recent call is an add, remove or rename that asked for confirmation
\* and was answered with something other than "y" or "yes"
C11_Case == last.op \in Mutations /\ last.declined

\* C11: a declined confirmation (add or rename onto an existing destination with
\* overwrite unset, remove with confirm unset) makes the call fail with "aborted"
\* and changes nothing: every file, the destination included, keeps its place and
\* content, no trash entry is created, the source is not moved and the log is
\* unchanged.
C11_DeclinedChangesNothing ==
    C11_Case =>
        /\ ~last.ok /\ last.msg = "aborted"
        /\ fs = last.fs0
        /\ last.tr = NoPath
        /\ cfg = last.cfg0

\* an add onto an existing destination, declined
C11_Witness ==
    /\ C11_Case /\ last.op = "add" /\ last.msg = "aborted"
    /\ last.src # last.dest
    /\ Exists(fs, last.src) /\ Exists(fs, last.dest)
    /\ Content(fs, last.dest) = last.fs0[last.dest]

\* C12 ----------------------------------------------------------------------
\* the most recent call is an undo that found a rename entry in the log
C12_Case == last.op = "undo" /\ HasLast(last.cfg0) /\ LogBefore.action = "rename"

\* C12: undo on a rename entry does not reverse the rename: it returns failure with
\* "unknown last action" and moves no file of root or trash, so directly after a
\* successful rename the file is still under its new name and not under the old one.
C12_RenameNotUndone ==
    C12_Case =>
        /\ ~last.ok /\ last.msg = "unknown last action"
        /\ fs = last.fs0 /\ last.clob = {} /\ last.tr = NoPath
        /\ (prev.op = "rename" /\ prev.ok) =>
              /\ Content(fs, prev.dest) = prev.content
              /\ prev.src # prev.dest => ~Exists(fs, prev.src)

\* rename a to a new name, then undo
C12_Witness ==
    /\ C12_Case /\ prev.op = "rename" /\ prev.ok
    /\ last.msg = "unknown last action"
    /\ prev.content # 0 /\ Content(fs, prev.dest) = prev.content
    /\ ~Exists(fs, prev.src)

\* C13 ----------------------------------------------------------------------
\* the most recent call is an add, remove or rename whose move into trash raised
C13_Case == last.op \in Mutations /\ ~last.io[1]

\* C13: when the move into trash fails, in remove or in the overwrite step of add
\* or rename, the call returns failure, the file to be trashed is still at its
\* place with its content, no trash entry is created, the source (old) file is not
\* moved and no log entry is written.
C13_TrashFailureKeepsFiles ==
    C13_Case =>
        /\ ~last.ok
        /\ last.op = "add" => last.msg = "Failed to move existing prompt to trash"
        /\ last.op = "remove" => last.msg = "Failed to remove (move to trash)"
        /\ last.op = "rename" => last.msg = "Failed to move existing target to trash"
        /\ Exists(last.fs0, last.dest)
        /\ Content(fs, last.dest) = last.fs0[last.dest]
        /\ last.tr = NoPath
        /\ {p \in DOMAIN fs : p.dir = "trash"} = TrashBefore
        /\ Content(fs, last.src) = Content(last.fs0, last.src)
        /\ fs = last.fs0
        /\ cfg = last.cfg0

\* a forced rename onto an existing name whose trash move raises
C13_Witness ==
    /\ C13_Case /\ last.op = "rename" /\ ~last.ok
    /\ last.src # last.dest
    /\ Exists(fs, last.src) /\ Exists(fs, last.dest)
    /\ fs = last.fs0

\* C14 ----------------------------------------------------------------------
\* the most recent call is an undo on a stale entry: a remove entry whose trashed
\* file is gone, or an add entry whose destination is gone
C14_StaleRemove ==
    /\ last.op = "undo" /\ HasLast(last.cfg0) /\ LogBefore.action = "remove"
    /\ ~Exists(last.fs0, LogBefore.trashed)

C14_StaleAdd ==
    /\ last.op = "undo" /\ HasLast(last.cfg0) /\ LogBefore.action = "add"
    /\ ~Exists(last.fs0, LogBefore.dest)

\* C14: undo on a stale log entry returns a not-found failure ("trashed file not
\* found" for a remove entry, "added file not found" for an add entry), moves no
\* file and leaves the log entry in place.
C14_StaleUndoChangesNothing ==
    /\ C14_StaleRemove => ~last.ok /\ last.msg = "trashed file not found"
    /\ C14_StaleAdd => ~last.ok /\ last.msg = "added file not found"
    /\ (C14_StaleRemove \/ C14_StaleAdd) =>
          /\ fs = last.fs0 /\ last.clob = {}
          /\ cfg = last.cfg0 /\ HasLast(cfg)

\* a remove, the deletion of its trash entry outside the program, then undo
C14_Witness ==
    /\ C14_StaleRemove /\ prev.op = "external"
    /\ last.msg = "trashed file not found"
    /\ cfg.last_action = lastMut

\* an add, the deletion of the added file outside the program, then undo
C14_AddWitness ==
    /\ C14_StaleAdd /\ prev.op = "external"
    /\ last.msg = "added file not found"
    /\ cfg.last_action = lastMut

\* C15 ----------------------------------------------------------------------
\* the most recent call is an add whose source does not exist, or a remove or
\* rename of a name whose suffixed file is not in root
C15_Case == last.op \in Mutations /\ ~Exists(last.fs0, last.src)

\* C15: add with a nonexistent source, remove of a name whose suffixed file is not
\* in root and rename whose old suffixed file is not in root fail with a not-found
\* result ("File not found" for add, "Not found" for remove and rename) and leave
\* the files of root, the trash and the log unchanged.
C15_NotFoundChangesNothing ==
    C15_Case =>
        /\ ~last.ok
        /\ last.msg = (IF last.op = "add" THEN "File not found" ELSE "Not found")
        /\ last.op # "add" => last.src.dir = "root" /\ EndsWithSuffix(last.src.name)
        /\ fs = last.fs0
        /\ last.tr = NoPath
        /\ cfg = last.cfg0

\* remove of a name that is not in root while root holds other files
C15_Witness ==
    /\ C15_Case /\ last.op = "remove" /\ last.msg = "Not found"
    /\ \E p \in DOMAIN fs : p.dir = "root"
    /\ fs = last.fs0

\* C16 ----------------------------------------------------------------------
\* the number of suffix tokens in a name
Suffixes(name) == Len(SelectSeq(name, LAMBDA x : x = SUFFIX))

\* the name with the suffix appended
WithSuffix(name) == name \o <<SUFFIX>>

\* the names given without the suffix
BareNames == {n \in UserNames \cup NewNames : n[Len(n)] # SUFFIX}

\* C16: normalization appends the suffix exactly when the name does not end with
\* it and is idempotent: an add of a file named x and an add of a file named
\* x.prompt.md both have the destination root/x.prompt.md, with the suffix once,
\* and in every state remove and rename given x do what they do given x.prompt.md.
C16_NormalizedNames ==
    /\ \A n \in UserNames \cup NewNames :
          /\ Normalize(Normalize(n)) = Normalize(n)
          /\ Normalize(n) = (IF n \in BareNames THEN WithSuffix(n) ELSE n)
    /\ (last.op = "add" /\ Exists(last.fs0, last.src)) =>
          /\ last.dest.dir = "root"
          /\ Suffixes(last.dest.name) = 1
          /\ last.dest.name = (IF Suffixes(last.src.name) = 0
                               THEN WithSuffix(last.src.name) ELSE last.src.name)
    /\ \A n \in BareNames, ans \in Answers :
          /\ remove_prompt(fs, trashDir, cfg, now, n, FALSE, ans, NoneRaises)
               = remove_prompt(fs, trashDir, cfg, now, WithSuffix(n), FALSE, ans, NoneRaises)
          /\ \A m \in NewNames :
                /\ rename_prompt(fs, trashDir, cfg, now, n, m, FALSE, ans, NoneRaises)
                     = rename_prompt(fs, trashDir, cfg, now, WithSuffix(n), m, FALSE, ans,
                                     NoneRaises)
                /\ rename_prompt(fs, trashDir, cfg, now, m, n, FALSE, ans, NoneRaises)
                     = rename_prompt(fs, trashDir, cfg, now, m, WithSuffix(n), FALSE, ans,
                                     NoneRaises)

\* add of ext/a, then a forced add of ext/a.prompt.md: both land on root/a.prompt.md,
\* which remove "a" then finds
C16_Witness ==
    /\ last.op = "add" /\ last.ok /\ last.src.name = <<"a", SUFFIX>>
    /\ prev.op = "add" /\ prev.ok /\ prev.src.name = <<"a">>
    /\ last.dest = prev.dest
    /\ last.dest = RootPath(<<"a", SUFFIX>>)
    /\ remove_prompt(fs, trashDir, cfg, now, <<"a">>, TRUE, "n", NoneRaises).ok

\* C17 ----------------------------------------------------------------------
\* the most recent call is an undo on an add entry whose destination exists and
\* whose overwritten_trash is not recorded or names a file that is gone
C17_Case ==
    /\ last.op = "undo" /\ HasLast(last.cfg0) /\ LogBefore.action = "add"
    /\ Exists(last.fs0, LogBefore.dest)
    /\ Overwritten(LogBefore) # NoPath => ~Exists(last.fs0, Overwritten(LogBefore))

\* the paths that hold content c
Holders(f, c) == {p \in DOMAIN f : f[p] = c}

\* C17: undo of an add entry whose destination exists, with no overwritten_trash
\* recorded or the recorded trash file gone, moves dest back to the recorded src;
\* only when that move raises does it move dest to the working directory under its
\* basename; when that raises too it fails and changes nothing.  In each successful
\* case the content is at exactly one path, dest is absent from root and the log is
\* empty.
C17_UndoAddPriority ==
    C17_Case =>
        LET d == LogBefore.dest
            s == LogBefore.src
            c == last.fs0[d]
        IN
        /\ last.io[1] =>
              /\ last.ok /\ last.msg = "moved back to src"
              /\ Content(fs, s) = c
        /\ (~last.io[1] /\ last.io[2]) =>
              /\ last.ok /\ last.msg = "moved to fallback"
              /\ Content(fs, CwdPath(last.cwd, d.name)) = c
              /\ Content(fs, s) = Content(last.fs0, s)
        /\ (~last.io[1] /\ ~last.io[2]) =>
              ~last.ok /\ fs = last.fs0 /\ cfg = last.cfg0
        /\ last.ok =>
              /\ Cardinality(Holders(fs, c)) = 1
              /\ ~Exists(fs, d)
              /\ ~HasLast(cfg)

\* C18 ----------------------------------------------------------------------
Calls == Mutations \cup {"undo"}

\* C18: an add, remove, rename or undo call that returns failure leaves the log
\* exactly as it was before the call; the log changes only in a successful add,
\* remove or rename, which writes its record, and in a successful undo, which
\* clears it.
C18_FailureKeepsLog ==
    /\ (last.op \in Calls /\ ~last.ok) => cfg = last.cfg0
    /\ cfg # last.cfg0 =>
          /\ last.op \in Calls /\ last.ok
          /\ last.op \in Mutations => HasLast(cfg) /\ cfg.last_action = lastMut
          /\ last.op = "undo" => HasLast(last.cfg0) /\ ~HasLast(cfg)

\* an undo of an add entry whose two moves raise: the entry stays
C18_Witness ==
    /\ last.op = "undo" /\ ~last.ok /\ last.msg = "failed to undo add"
    /\ ~last.io[1] /\ ~last.io[2]
    /\ HasLast(cfg) /\ cfg = last.cfg0

\* C19 ----------------------------------------------------------------------
\* the most recent call is an add whose source is its own destination in root, or
\* a rename whose old and new names normalize to the same name, that went on to
\* trash the existing file (overwrite forced or confirmed)
C19_Case ==
    /\ last.op \in {"add", "rename"}
    /\ last.src = last.dest
    /\ Exists(last.fs0, last.src)
    /\ ~last.declined
    /\ last.io[1]

\* C19: a self-targeting add or rename with overwrite forced returns failure: the
\* file is moved to trash, the main move finds no source and raises, and the
\* restore move puts the file back.  When the restore move succeeds the file is in
\* root with its original content and there is no trash entry for it; the log is
\* unchanged and every other file of root is as before.  When the restore move
\* raises the file is left in trash.
C19_SelfTargetFails ==
    C19_Case =>
        /\ ~last.ok
        /\ last.msg = (IF last.op = "add" THEN "Failed to move" ELSE "Failed to rename")
        /\ last.tr = Path("trash", StampedName)
        /\ cfg = last.cfg0
        /\ last.io[3] =>
              /\ Content(fs, last.src) = last.fs0[last.src]
              /\ ~Exists(fs, last.tr)
              /\ Holders(fs, last.fs0[last.src]) = {last.src}
        /\ ~last.io[3] =>
              /\ ~Exists(fs, last.src)
              /\ Content(fs, last.tr) = last.fs0[last.src]
        /\ \A p \in DOMAIN last.fs0 :
              (p.dir # "trash" /\ p # last.src) => Content(fs, p) = last.fs0[p]

\* rename "a" to "a.prompt.md" with force, the restore move succeeding
C19_Witness ==
    /\ C19_Case /\ last.op = "rename" /\ last.io[3]
    /\ last.msg = "Failed to rename"
    /\ Content(fs, last.src) = last.fs0[last.src]
    /\ ~Exists(fs, last.tr)

\* add of root/b.prompt.md into root with force, the restore move succeeding
C19_AddWitness ==
    /\ C19_Case /\ last.op = "add" /\ last.io[3]
    /\ last.msg = "Failed to move"
    /\ Content(fs, last.src) = last.fs0[last.src]
    /\ ~Exists(fs, last.tr)

====
